---- MODULE Spec2Model ----
(***************************************************************************)
(* A model of getSiteLinks.py: the spider spiderCustom (its construction,  *)
(* start_requests, the parse generator and the closed hook) together with  *)
(* the parts of the Scrapy engine the spider relies on (the scheduler, the *)
(* offsite and depth spider middlewares, the robots.txt gate and the       *)
(* downloader).                                                            *)
(*                                                                         *)
(* parse is a generator: the engine resumes it once per yielded object, so *)
(* the code between two yields is one atomic step and the generators of    *)
(* several responses interleave at their yields.                           *)
(*                                                                         *)
(* Spec is the crawl, FairSpec the crawl with the reactor running whatever *)
(* is pending, and SpecDate the resolution of the updated field of one     *)
(* response (lines 174-204) with parseAndFormatDate.                       *)
(***************************************************************************)
EXTENDS Integers, Sequences, FiniteSets, TLC

(***************************************************************************)
(* Bounds of the model.                                                    *)
(***************************************************************************)
\* maxUrls of a run ranges over 1..MaxMaxUrls
MaxMaxUrls == 5
\* crawlDepth of a run ranges over 1..MaxCrawlDepth
MaxCrawlDepth == 1
\* a page carries at most MaxLinks distinct hrefs
MaxLinks == 3
\* urlList holds at most MaxListLen lines
MaxListLen == 2
\* when closed runs, the files <root>.csv and <root>-01.csv .. <root>-NN.csv, NN up
\* to MaxSuffix, may exist
MaxSuffix == 1
\* a meta content has at most MaxPad blanks before and after its text
MaxPad == 1

(***************************************************************************)
(* URLs.  A URL is its host (a sequence of labels) and its path (a         *)
(* sequence of characters).                                                *)
(***************************************************************************)
Url(h, p) == [host |-> h, path |-> p]

uHome  == Url(<<"www", "ex">>, <<"/">>)
uDocA  == Url(<<"www", "ex">>, <<"/", "d", "/", "a">>)
uDocB  == Url(<<"ex">>,        <<"/", "d", "/", "b">>)
uOther == Url(<<"ex">>,        <<"/", "o">>)
uDoc2  == Url(<<"www", "ex">>, <<"/", "d", "2">>)
uOff   == Url(<<"off">>,       <<"/", "d", "/", "c">>)

Urls == {uHome, uDocA, uDocB, uOther, uDoc2, uOff}

\* The site: for every URL, the sets of absolute URLs its page's anchors may
\* resolve to (a page is fetched at most once in a run, so the choice made when
\* it is fetched fixes the page).
SitePages(u) ==
    CASE u = uHome  -> {{uDocA}, {uDocA, uDocB, uOther}, {uHome, uDocA, uOff},
                        {uDocA, uDocB, uOther, uDoc2}}
      [] u = uDocA  -> {{uDocB}, {uHome, uDoc2, uOff}}
      [] u = uDocB  -> {{uOther}}
      [] u = uOther -> {{uDocA, uDoc2}}
      [] u = uDoc2  -> {{}}
      [] OTHER      -> {{uDocA}}

LinkSets(u) == {S \in SitePages(u) : Cardinality(S) <= MaxLinks}

\* The titles the page of a URL may carry, a title a sequence of characters
\* (<<>> also stands for a page without a title element).
SiteTitles(u) ==
    CASE u = uHome  -> {<<>>}
      [] u = uDocA  -> {<<" ", "A", "?">>}
      [] u = uOff   -> {<<" ">>}
      [] OTHER      -> {<<>>}

\* str.startswith
StartsWith(s, prefix) ==
    /\ Len(prefix) <= Len(s)
    /\ SubSeq(s, 1, Len(prefix)) = prefix

\* the site's robots policy: the paths under /d/b are disallowed
RobotsDisallowed(u) == StartsWith(u.path, <<"/", "d", "/", "b">>)

(***************************************************************************)
(* The configuration dConfigData.  urlList is a sequence of lines, a line  *)
(* a sequence of tokens, a token a URL or the blank cSpace (written as a   *)
(* URL of no host, so that the tokens of a line compare).                  *)
(***************************************************************************)
cSpace == Url(<<>>, <<" ">>)

ListUrls == {uDocA, uOff}

Lines == {<<cSpace>>, <<cSpace, uDocA, cSpace>>} \cup {<<u>> : u \in ListUrls}

RECURSIVE SeqsUpTo(_, _)
SeqsUpTo(S, n) ==
    IF n = 0 THEN {<<>>}
    ELSE LET shorter == SeqsUpTo(S, n - 1)
         IN  shorter \cup {Append(s, x) : s \in {t \in shorter : Len(t) = n - 1}, x \in S}

\* str.strip on a line
RECURSIVE StripLeft(_)
StripLeft(line) ==
    IF line # <<>> /\ Head(line) = cSpace THEN StripLeft(Tail(line)) ELSE line

RECURSIVE StripRight(_)
StripRight(line) ==
    IF line # <<>> /\ line[Len(line)] = cSpace
    THEN StripRight(SubSeq(line, 1, Len(line) - 1))
    ELSE line

Strip(line) == StripRight(StripLeft(line))

ParentDirs == {<<>>, <<"/", "d">>}

\* str.strip on a line is not blank
NonBlank(line) == Strip(line) # <<>>

\* the configurations main builds: a startUrl and no urlList (Crawl Mode), or a
\* urlList with some non-blank line (List Mode; crawlDepth and parentDir, which
\* List Mode does not read, are then left at one value)
UrlLists == {l \in SeqsUpTo(Lines, MaxListLen) : \E i \in 1..Len(l) : NonBlank(l[i])}

Configs ==
    [startUrl    : {uHome},
     urlList     : {<<>>},
     maxUrls     : 1..MaxMaxUrls,
     crawlDepth  : 1..MaxCrawlDepth,
     parentDir   : ParentDirs,
     robotFilter : BOOLEAN,
     log         : BOOLEAN]
    \cup
    [startUrl    : {uHome},
     urlList     : UrlLists,
     maxUrls     : 1..MaxMaxUrls,
     crawlDepth  : {1},
     parentDir   : {<<>>},
     robotFilter : BOOLEAN,
     log         : BOOLEAN]

\* Python's None
None == "None"

\* line 21: the module-level handler, which no statement of the program assigns
MEM_LOG_HANDLER == None

\* str.strip on a sequence of characters
RECURSIVE LStrip(_)
LStrip(s) == IF s # <<>> /\ Head(s) = " " THEN LStrip(Tail(s)) ELSE s

RECURSIVE RStrip(_)
RStrip(s) == IF s # <<>> /\ s[Len(s)] = " " THEN RStrip(SubSeq(s, 1, Len(s) - 1)) ELSE s

StrStrip(s) == RStrip(LStrip(s))

\* line 221: the characters removed from the file name
cUnsafe == {"\\", "/", ":", "*", "?", "\"", "<", ">", "|"}

IsSafe(c) == c \notin cUnsafe

Sanitize(s) == SelectSeq(s, IsSafe)

\* line 220: the default root name
sOutput == <<"o", "u", "t", "p", "u", "t">>

\* a file name: root, the digits after the dash (none: no dash), extension
File(root, suffix, ext) == [root |-> root, suffix |-> suffix, ext |-> ext]

\* the value of sCsvFile before closed runs
NoFile == File(<<>>, <<>>, "")

RECURSIVE Digits(_)
Digits(n) == IF n < 10 THEN <<n>> ELSE Digits(n \div 10) \o <<n % 10>>

\* the format specification 02d
Format02d(n) == IF n < 10 THEN <<0>> \o Digits(n) ELSE Digits(n)

\* line 223
CsvFile(root) == File(root, <<>>, "csv")

\* line 226
SuffixedCsvFile(root, iSuffix) == File(root, Format02d(iSuffix), "csv")

\* line 239
LogFile(root) == File(root, <<>>, "log")

\* a variant of FreeCsvFile that tests the name once
FreeCsvFileOnce(root, sFile, iSuffix, files) ==
    IF sFile \in files THEN SuffixedCsvFile(root, iSuffix) ELSE sFile

\* lines 224-227: the loop that looks for a name no file has
RECURSIVE FreeCsvFile(_, _, _, _)
FreeCsvFile(root, sFile, iSuffix, files) ==
    IF sFile \in files
    THEN FreeCsvFile(root, SuffixedCsvFile(root, iSuffix), iSuffix + 1, files)
    ELSE sFile

\* the sets of files that may exist when closed runs
ExistingSets(root) ==
    SUBSET ({CsvFile(root)} \cup {SuffixedCsvFile(root, i) : i \in 1..MaxSuffix})

VARIABLES
    dConfigData,   \* the configuration of the run
    lUrlSet,       \* self.lUrlSet
    lItems,        \* self.lItems
    startLeft,     \* the URLs start_requests has still to yield
    scheduled,     \* the requests in the scheduler or in flight
    gens,          \* the parse generators the engine has still to resume
    nYielded,      \* history: how many Requests the spider yielded per URL
    issued,        \* history: the URLs whose Request reached the scheduler
    pageLinks,     \* history: the lHrefSet of every page parse was called on
    fetched,       \* history: the URLs the downloader fetched
    failed,        \* history: the URLs whose fetch failed
    bClosed,       \* the closed hook has run
    sStartTitle,   \* self.sStartTitle
    bPrintedCrawlingMessage,   \* self.bPrintedCrawlingMessage
    console,       \* the lines printed so far
    existing,      \* the files that existed when closed ran
    sCsvFile,      \* the file name closed chose
    written,       \* the files closed wrote
    lErrors,       \* the messages closed passed to logging.error
    response,      \* the date signals of the response parse is resolving
    datePc,        \* where parse stands in lines 174-204
    sUpdatedDate,  \* parse's local sUpdatedDate
    lConsulted,    \* the meta elements parse has queried, in order
    updated        \* the updated field of the record

vars == <<dConfigData, lUrlSet, lItems, startLeft, scheduled, gens,
          nYielded, issued, pageLinks, fetched, failed, bClosed,
          sStartTitle, bPrintedCrawlingMessage, console,
          existing, sCsvFile, written, lErrors,
          response, datePc, sUpdatedDate, lConsulted, updated>>

\* the variables of the resolution of the updated field
dateVars == <<response, datePc, sUpdatedDate, lConsulted, updated>>

\* the variables of parse's printing
outVars == <<sStartTitle, bPrintedCrawlingMessage, console>>

\* the variables closed sets
closeVars == <<existing, sCsvFile, written, lErrors>>

(***************************************************************************)
(* spiderCustom.__init__                                                   *)
(***************************************************************************)
iMaxUrls    == dConfigData.maxUrls
iCrawlDepth == dConfigData.crawlDepth
sParentDir  == dConfigData.parentDir

\* the non-blank stripped lines of urlList, as a set
UrlListOf(urlList) ==
    {Strip(urlList[i])[1] : i \in {j \in 1..Len(urlList) : NonBlank(urlList[j])}}

bUrlListMode == \E i \in 1..Len(dConfigData.urlList) : NonBlank(dConfigData.urlList[i])
lUrlList     == UrlListOf(dConfigData.urlList)
sStartUrl    == dConfigData.startUrl

\* allowed_domains: the start URL's host without a leading "www."
allowed_domains ==
    IF bUrlListMode THEN {}
    ELSE LET sDomain == sStartUrl.host
         IN  {IF sDomain # <<>> /\ Head(sDomain) = "www" THEN Tail(sDomain) ELSE sDomain}

\* the class attribute custom_settings as __init__ leaves it
custom_settings ==
    [DEPTH_LIMIT    |-> iCrawlDepth,
     ROBOTSTXT_OBEY |-> dConfigData.robotFilter]

(***************************************************************************)
(* The settings of the crawler.  Scrapy copies the class attribute         *)
(* custom_settings into the crawler's settings when the Crawler is made    *)
(* (Spider.update_settings, a classmethod), which is before the spider is  *)
(* constructed: what __init__ writes into custom_settings afterwards is    *)
(* not read by the run.  DEPTH_LIMIT is the value of the class body;       *)
(* ROBOTSTXT_OBEY is not in the class body and keeps Scrapy's default.     *)
(***************************************************************************)
DEPTH_LIMIT == 3

settings ==
    [DEPTH_LIMIT    |-> DEPTH_LIMIT,
     ROBOTSTXT_OBEY |-> FALSE]

(***************************************************************************)
(* The engine's handling of a Request the spider yields.                   *)
(***************************************************************************)
\* list.endswith on the labels of a host
EndsWith(s, suffix) ==
    /\ Len(suffix) <= Len(s)
    /\ SubSeq(s, Len(s) - Len(suffix) + 1, Len(s)) = suffix

\* OffsiteMiddleware: with allowed_domains set, a request yielded from a
\* response is followed only if its host is an allowed domain or below one
OnSite(u) ==
    \/ allowed_domains = {}
    \/ \E d \in allowed_domains : EndsWith(u.host, d)

\* DepthMiddleware: a request yielded from a response is dropped when its depth
\* is over the crawler's DEPTH_LIMIT setting
WithinDepth(depth) == depth <= settings.DEPTH_LIMIT

\* RobotsTxtMiddleware: the gate before a download
RobotsAllowed(u) == ~settings.ROBOTSTXT_OBEY \/ ~RobotsDisallowed(u)

Request(u, depth) == [url |-> u, depth |-> depth]

\* the requests that reach the scheduler when parse, run on a response of depth
\* `depth`, yields a Request for u
FollowUp(u, depth) ==
    IF OnSite(u) /\ WithinDepth(depth + 1) THEN {Request(u, depth + 1)} ELSE {}

(***************************************************************************)
(* The state after construction of the spider.                             *)
(***************************************************************************)
InitSpider ==
    /\ dConfigData \in Configs
    /\ lUrlSet = {}
    /\ lItems = <<>>
    /\ startLeft = IF bUrlListMode THEN lUrlList ELSE {sStartUrl}
    /\ scheduled = {}
    /\ gens = {}
    /\ nYielded = [u \in Urls |-> 0]
    /\ issued = {}
    /\ pageLinks = <<>>
    /\ fetched = {}
    /\ failed = {}
    /\ bClosed = FALSE
    /\ sStartTitle = <<>>
    /\ bPrintedCrawlingMessage = FALSE
    /\ console = <<>>
    /\ existing = {}
    /\ sCsvFile = NoFile
    /\ written = {}
    /\ lErrors = <<>>

\* no response is being resolved
DateIdle ==
    /\ response = [hasLastModified |-> FALSE, lastModified |-> <<>>,
                   meta |-> [i \in 1..4 |-> <<>>]]
    /\ datePc = "idle"
    /\ sUpdatedDate = <<>>
    /\ lConsulted = <<>>
    /\ updated = <<>>

Init == InitSpider /\ DateIdle

(***************************************************************************)
(* startRequests: one step per Request it yields (the engine pulls the     *)
(* start requests one at a time).  The seeds go to the scheduler without   *)
(* passing the spider middlewares' output filters, at depth 0.             *)
(***************************************************************************)
StartRequests(sUrl) ==
    /\ ~bClosed
    /\ sUrl \in startLeft
    /\ startLeft' = startLeft \ {sUrl}
    /\ IF bUrlListMode
       THEN IF sUrl \notin lUrlSet
            THEN /\ lUrlSet' = lUrlSet \cup {sUrl}
                 /\ nYielded' = [nYielded EXCEPT ![sUrl] = @ + 1]
                 /\ scheduled' = scheduled \cup {Request(sUrl, 0)}
                 /\ issued' = issued \cup {sUrl}
            ELSE UNCHANGED <<lUrlSet, nYielded, scheduled, issued>>
       ELSE /\ lUrlSet' = lUrlSet \cup {sStartUrl}
            /\ nYielded' = [nYielded EXCEPT ![sStartUrl] = @ + 1]
            /\ scheduled' = scheduled \cup {Request(sStartUrl, 0)}
            /\ issued' = issued \cup {sStartUrl}
    /\ UNCHANGED <<dConfigData, lItems, gens, pageLinks, fetched, failed, bClosed>>
    /\ UNCHANGED <<outVars, closeVars, dateVars>>

(***************************************************************************)
(* parse up to its first yield (the item): the record is appended.         *)
(***************************************************************************)
Item(sUrl, sTitle, lHrefSet) ==
    [url |-> sUrl, title |-> sTitle, linkCount |-> Cardinality(lHrefSet)]

\* a line of the console
Line(kind, text) == [kind |-> kind, text |-> text]

\* line 160: whether parse prints the "Crawling" line
ShouldAnnounce == ~bUrlListMode /\ ~bPrintedCrawlingMessage

\* lines 160-165: what parse prints and keeps of the title
ParsePrints(sUrl, sTitle) ==
    /\ bPrintedCrawlingMessage' = (bPrintedCrawlingMessage \/ ShouldAnnounce)
    /\ sStartTitle' = IF sStartTitle = <<>> THEN sTitle ELSE sStartTitle
    /\ console' = (IF ShouldAnnounce THEN Append(console, Line("Crawling", sUrl)) ELSE console)
                      \o <<Line("title", sTitle)>>

\* a variant of AppendItem that puts the record first
PrependItem(dItem) == <<dItem>> \o lItems

\* line 205
AppendItem(dItem) == Append(lItems, dItem)

Generator(r, lHrefSet) ==
    [url |-> r.url, depth |-> r.depth, hrefs |-> lHrefSet, pc |-> "item"]

(***************************************************************************)
(* The download of a scheduled request: the robots gate, then the fetch;   *)
(* a failed fetch calls nothing of the spider, a fetched page starts parse.*)
(***************************************************************************)
Download(r) ==
    /\ ~bClosed
    /\ r \in scheduled
    /\ scheduled' = scheduled \ {r}
    /\ IF ~RobotsAllowed(r.url)
       THEN UNCHANGED <<lItems, gens, pageLinks, fetched, failed, outVars>>
       ELSE /\ fetched' = fetched \cup {r.url}
            /\ \E bOk \in BOOLEAN :
                 IF bOk
                 THEN /\ \E lHrefSet \in LinkSets(r.url), sTitle \in SiteTitles(r.url) :
                           /\ ParsePrints(r.url, sTitle)
                           /\ lItems' = AppendItem(Item(r.url, sTitle, lHrefSet))
                           /\ gens' = gens \cup {Generator(r, lHrefSet)}
                           /\ pageLinks' = (r.url :> lHrefSet) @@ pageLinks
                      /\ UNCHANGED failed
                 ELSE /\ failed' = failed \cup {r.url}
                      /\ UNCHANGED <<lItems, gens, pageLinks, outVars>>
    /\ UNCHANGED <<dConfigData, lUrlSet, startLeft, nYielded, issued, bClosed>>
    /\ UNCHANGED <<closeVars, dateVars>>

(***************************************************************************)
(* parse after a yield, up to its next yield or its end.                   *)
(***************************************************************************)
\* a variant of CapAllows that is off by one
CapAllowsOffByOne == Cardinality(lUrlSet) <= iMaxUrls

\* line 208: the cap, read when the generator is resumed after the item
CapAllows == Cardinality(lUrlSet) < iMaxUrls

\* a variant of InParentDir that filters nothing
InParentDirUnfiltered(sNextUrl) == TRUE

\* line 210: the parentDir filter
InParentDir(sNextUrl) == sParentDir = <<>> \/ StartsWith(sNextUrl.path, sParentDir)

\* a variant of Acceptable without the test of line 212
AcceptableIgnoringVisited(lHrefSet) == {sNextUrl \in lHrefSet : InParentDir(sNextUrl)}

\* the links of lHrefSet the loop does not skip
Acceptable(lHrefSet) == {sNextUrl \in lHrefSet : InParentDir(sNextUrl) /\ sNextUrl \notin lUrlSet}

\* a variant of EntersLoop without the test of line 207
EntersLoopInAnyMode(g) == g.pc = "item" => CapAllows

\* whether the resumed generator goes on to the loop over its links
EntersLoop(g) == ~bUrlListMode /\ (g.pc = "item" => CapAllows)

ParseResume(g) ==
    /\ ~bClosed
    /\ g \in gens
    /\ IF EntersLoop(g) /\ Acceptable(g.hrefs) # {}
       THEN \E sNextUrl \in Acceptable(g.hrefs) :
              /\ lUrlSet' = lUrlSet \cup {sNextUrl}
              /\ nYielded' = [nYielded EXCEPT ![sNextUrl] = @ + 1]
              /\ scheduled' = scheduled \cup FollowUp(sNextUrl, g.depth)
              /\ issued' = issued \cup {r.url : r \in FollowUp(sNextUrl, g.depth)}
              /\ gens' = (gens \ {g}) \cup
                           {[g EXCEPT !.hrefs = @ \ {sNextUrl}, !.pc = "request"]}
       ELSE /\ gens' = gens \ {g}
            /\ UNCHANGED <<lUrlSet, nYielded, scheduled, issued>>
    /\ UNCHANGED <<dConfigData, lItems, startLeft, pageLinks, fetched, failed, bClosed>>
    /\ UNCHANGED <<outVars, closeVars, dateVars>>

(***************************************************************************)
(* closed: the engine calls it once nothing is left to do.                 *)
(***************************************************************************)
\* a variant of Idle that does not wait for the suspended generators
IdleIgnoringGenerators == startLeft = {} /\ scheduled = {}

Idle == startLeft = {} /\ scheduled = {} /\ gens = {}

\* line 220
sRootName == IF StrStrip(sStartTitle) # <<>> THEN StrStrip(sStartTitle) ELSE sOutput

\* line 221
sSanitized == Sanitize(sRootName)

\* line 222
sCsvRoot == sSanitized

\* line 237: whether closed writes the log file
WritesLog == dConfigData.log /\ MEM_LOG_HANDLER # None

\* lines 237-245: the log file and the summary line
LogAndSummary(sFile) ==
    /\ IF WritesLog
       THEN \E bLogOk \in BOOLEAN :
              IF bLogOk
              THEN /\ written' = {sFile, LogFile(sCsvRoot)}
                   /\ UNCHANGED lErrors
              ELSE /\ written' = {sFile}
                   /\ lErrors' = Append(lErrors, "Failed to write log file")
       ELSE /\ written' = {sFile}
            /\ UNCHANGED lErrors
    /\ console' = Append(console, Line("Saved", <<Len(lItems), sFile>>))

\* lines 219-245; the files that exist and the outcome of the write are the
\* environment's
Closed ==
    /\ ~bClosed
    /\ Idle
    /\ bClosed' = TRUE
    /\ \E files \in ExistingSets(sCsvRoot), bCsvOk \in BOOLEAN :
         LET sFile == FreeCsvFile(sCsvRoot, CsvFile(sCsvRoot), 1, files) IN
         /\ existing' = files
         /\ sCsvFile' = sFile
         /\ IF bCsvOk
            THEN LogAndSummary(sFile)
            ELSE /\ lErrors' = Append(lErrors, "Failed to write CSV file")
                 /\ UNCHANGED <<written, console>>
    /\ UNCHANGED <<dConfigData, lUrlSet, lItems, startLeft, scheduled, gens,
                   nYielded, issued, pageLinks, fetched, failed>>
    /\ UNCHANGED <<sStartTitle, bPrintedCrawlingMessage, dateVars>>

Next ==
    \/ \E sUrl \in Urls : StartRequests(sUrl)
    \/ \E r \in scheduled : Download(r)
    \/ \E g \in gens : ParseResume(g)
    \/ Closed

Spec == Init /\ [][Next]_vars

\* The reactor keeps running while anything is pending: a start request not yet
\* sent, a fetch not yet completed, a generator not yet exhausted, the closing
\* of an idle spider.
\* The runs whose configuration leaves robotFilter and log at the defaults of
\* main, in either mode.
InitFair == Init /\ ~dConfigData.robotFilter /\ ~dConfigData.log

FairSpec == InitFair /\ [][Next]_vars /\ WF_vars(Next)

(***************************************************************************)
(* Helpers of the properties.                                              *)
(***************************************************************************)
\* parse was called on u and its generator has run to its end
Processed(u) == u \in DOMAIN pageLinks /\ \A g \in gens : g.url # u

\* the URLs of the records
RecordUrls == {lItems[i].url : i \in 1..Len(lItems)}

(***************************************************************************)
(* C1.  In Crawl Mode, when the crawl ends, the number of page records is  *)
(* at most maxUrls.                                                        *)
(***************************************************************************)
C1_RecordsWithinMaxUrls ==
    (~bUrlListMode /\ bClosed) => Len(lItems) <= iMaxUrls

(***************************************************************************)
(* C2.  In Crawl Mode, a step taken while the visited set holds maxUrls or *)
(* more URLs adds no URL to visited and issues no URL for fetch: the cap   *)
(* applies to every single enqueue.                                        *)
(***************************************************************************)
C2_NoEnqueueAtCap ==
    [][(~bUrlListMode /\ Cardinality(lUrlSet) >= iMaxUrls)
          => (lUrlSet' = lUrlSet /\ issued' = issued)]_vars

(***************************************************************************)
(* C3.  In Crawl Mode with maxUrls = 2, when the start page is fetched and *)
(* carries 3 distinct outbound links, all on the site, within the depth    *)
(* limit and fetched successfully, exactly 2 records are produced, and no  *)
(* fetch is issued once the second URL is enqueued.                        *)
(***************************************************************************)
C3_Scenario ==
    /\ ~bUrlListMode
    /\ iMaxUrls = 2
    /\ sParentDir = <<>>
    /\ sStartUrl \in DOMAIN pageLinks
    /\ Cardinality(pageLinks[sStartUrl]) = 3
    /\ \A u \in pageLinks[sStartUrl] :
          u # sStartUrl /\ OnSite(u) /\ RobotsAllowed(u) /\ u \notin failed

C3_TwoRecordsAtMaxTwo ==
    /\ [](C3_Scenario /\ bClosed => Len(lItems) = 2)
    /\ [][C3_Scenario /\ Cardinality(lUrlSet) >= 2 => issued' = issued]_vars

(***************************************************************************)
(* C4.  In both modes no URL is yielded for fetch more than once: a step   *)
(* never yields a Request for a URL that is already in the visited set,    *)
(* and the visited set only grows.                                         *)
(***************************************************************************)
C4_NoUrlEnqueuedTwice ==
    /\ [](\A u \in Urls : nYielded[u] <= 1)
    /\ [][/\ lUrlSet \subseteq lUrlSet'
          /\ \A u \in lUrlSet : nYielded'[u] = nYielded[u]]_vars

\* the start page carried a link to itself, the loop over its links has run to
\* its end, and the start URL was still yielded once only
C4_Witness ==
    /\ ~bUrlListMode
    /\ Processed(sStartUrl)
    /\ sStartUrl \in pageLinks[sStartUrl]
    /\ uDocA \in pageLinks[sStartUrl] /\ nYielded[uDocA] = 1
    /\ nYielded[sStartUrl] = 1

(***************************************************************************)
(* C5.  In Crawl Mode the seed is fetched at depth 0 and every fetched     *)
(* page has a depth less than or equal to the crawlDepth configured for    *)
(* the run.                                                                *)
(***************************************************************************)
C5_DepthWithinCrawlDepth ==
    ~bUrlListMode =>
        \A g \in gens : /\ g.url = sStartUrl => g.depth = 0
                        /\ g.depth <= iCrawlDepth

(***************************************************************************)
(* C6.  The visited set holds exactly the URLs that were enqueued for      *)
(* fetch: a rejected link is not in it.                                    *)
(***************************************************************************)
C6_VisitedIsEnqueued == lUrlSet = issued

(***************************************************************************)
(* C7.  In List Mode no discovered link is ever enqueued and neither       *)
(* maxUrls nor crawlDepth limits the seeds: the distinct non-blank entries *)
(* of urlList are each yielded once, and at the end of the crawl exactly   *)
(* they were fetched and the number of records is their number minus the   *)
(* number of failed fetches.                                               *)
(***************************************************************************)
C7_Entries ==
    {u \in Urls : \E i \in 1..Len(dConfigData.urlList) : Strip(dConfigData.urlList[i]) = <<u>>}

C7_ListModeFetchesSeedsOnly ==
    bUrlListMode =>
        /\ lUrlSet \subseteq C7_Entries
        /\ \A u \in Urls : nYielded[u] = IF u \in lUrlSet THEN 1 ELSE 0
        /\ bClosed =>
              /\ fetched = C7_Entries
              /\ failed \subseteq C7_Entries
              /\ Len(lItems) = Cardinality(C7_Entries) - Cardinality(failed)

\* a list of two distinct entries, one of them padded, under maxUrls = 1: one
\* fetch failed, the other page carried links, and the crawl has ended
C7_Witness ==
    /\ dConfigData.urlList = <<(<<cSpace, uDocA, cSpace>>), (<<uOff>>)>>
    /\ iMaxUrls = 1
    /\ bClosed
    /\ Cardinality(failed) = 1
    /\ Len(lItems) = 1
    /\ pageLinks[lItems[1].url] # {}

(***************************************************************************)
(* C8.  In Crawl Mode with parentDir set, every discovered link that is    *)
(* enqueued has a path that starts with parentDir (a link whose path does  *)
(* not is never added to visited), and when the loop over the links of a   *)
(* page has run to its end every link of the page whose path starts with   *)
(* parentDir is in visited.                                                *)
(***************************************************************************)
C8_ParentDirFilter ==
    /\ []((~bUrlListMode /\ sParentDir # <<>>) =>
            \A u \in lUrlSet \ {sStartUrl} : StartsWith(u.path, sParentDir))
    /\ [][(~bUrlListMode /\ sParentDir # <<>>) =>
            \A g \in gens :
                (/\ \A h \in gens' : h.url # g.url
                 /\ g.pc = "request" \/ Cardinality(lUrlSet) < iMaxUrls)
                => \A l \in pageLinks[g.url] :
                      StartsWith(l.path, sParentDir) => l \in lUrlSet']_vars

\* under parentDir /d the start page linked to /o and to /d/a: the first was
\* rejected and is not in visited, the second was enqueued
C8_Witness ==
    /\ ~bUrlListMode
    /\ sParentDir = <<"/", "d">>
    /\ Processed(sStartUrl)
    /\ {uOther, uDocA} \subseteq pageLinks[sStartUrl]
    /\ uOther \notin lUrlSet
    /\ uDocA \in issued

(***************************************************************************)
(* C9.  With robotFilter set, a URL the site's robots policy disallows is  *)
(* never fetched and gives no record.                                      *)
(***************************************************************************)
C9_RobotsGateFollowsConfig ==
    dConfigData.robotFilter =>
        \A u \in fetched \cup RecordUrls : ~RobotsDisallowed(u)

(***************************************************************************)
(* C10.  The maxUrls cutoff is cooperative: a pending request leaves the   *)
(* scheduler only by being fetched, and then fails or gives its record;    *)
(* the crawl does not end with a request pending; and when the generator   *)
(* of a page is resumed after its item while visited holds maxUrls or more *)
(* URLs, none of its links is added to visited or issued.                  *)
(***************************************************************************)
C10_CooperativeCutoff ==
    /\ [](bClosed => scheduled = {})
    /\ [][~bUrlListMode =>
            /\ \A r \in scheduled : r \notin scheduled' =>
                  /\ r.url \in fetched'
                  /\ \/ r.url \in failed'
                     \/ /\ Len(lItems') = Len(lItems) + 1
                        /\ lItems'[Len(lItems')].url = r.url
            /\ Cardinality(lUrlSet) >= iMaxUrls =>
                  \A g \in gens : (g.pc = "item" /\ g \notin gens')
                      => (lUrlSet' = lUrlSet /\ issued' = issued)]_vars

\* more records than maxUrls (fetches pending at the cap completed), and a page
\* whose generator has ended with a link of it, passing the parentDir filter,
\* left out of visited
C10_Witness ==
    /\ ~bUrlListMode
    /\ Len(lItems) > iMaxUrls
    /\ \E p \in DOMAIN pageLinks :
          /\ Processed(p)
          /\ \E l \in pageLinks[p] : InParentDir(l) /\ l \notin lUrlSet

\* whether a line of the given kind was printed
Printed(kind) == \E i \in DOMAIN console : console[i].kind = kind

\* whether closed reported a failure to write the report
CsvFailed == \E i \in DOMAIN lErrors : lErrors[i] = "Failed to write CSV file"

(***************************************************************************)
(* C11.  When the write of the report file fails, closed still goes on:    *)
(* the summary line is printed and, with logging enabled, the log file is  *)
(* written.                                                                *)
(***************************************************************************)
C11_CsvFailureKeepsShutdown ==
    (bClosed /\ CsvFailed) =>
        /\ Printed("Saved")
        /\ dConfigData.log => LogFile(sCsvRoot) \in written

(***************************************************************************)
(* C12.  No file is written before closed runs; once closed has written    *)
(* the report, the log file is written exactly when logging is enabled.    *)
(***************************************************************************)
C12_LogFileFollowsConfig ==
    /\ ~bClosed => written = {}
    /\ (bClosed /\ sCsvFile \in written) =>
          (dConfigData.log <=> LogFile(sCsvRoot) \in written)

\* lines 220-221 applied to a title
BaseNameOf(sTitle) ==
    Sanitize(IF StrStrip(sTitle) # <<>> THEN StrStrip(sTitle) ELSE sOutput)

(***************************************************************************)
(* C13.  The base name of the report comes from the title of the first     *)
(* page processed: its stripped, sanitised title, or the default name when *)
(* that title is blank, whatever the titles of later pages.                *)
(***************************************************************************)
C13_BaseNameFromFirstPage ==
    (bClosed /\ lItems # <<>>) => sCsvFile.root = BaseNameOf(lItems[1].title)

\* the two decimal digits of a number below 100
TwoDigits(n) == <<n \div 10, n % 10>>

(***************************************************************************)
(* C14.  The name closed chooses for the report is the name of no existing *)
(* file: <base>.csv when no file has that name, and otherwise <base>-NN.csv *)
(* with NN, written with two digits, the smallest number from 1 on whose   *)
(* name no file has.                                                       *)
(***************************************************************************)
C14_ReportNameIsFree ==
    bClosed =>
        /\ sCsvFile \notin existing
        /\ sCsvFile.root = sCsvRoot
        /\ sCsvFile.ext = "csv"
        /\ CsvFile(sCsvRoot) \notin existing => sCsvFile.suffix = <<>>
        /\ CsvFile(sCsvRoot) \in existing =>
              \E n \in 1..(Cardinality(existing) + 1) :
                  /\ sCsvFile.suffix = TwoDigits(n)
                  /\ \A m \in 1..(n - 1) :
                        File(sCsvRoot, TwoDigits(m), "csv") \in existing

\* <base>.csv and <base>-01.csv exist and <base>-02.csv was written
C14_Witness ==
    /\ bClosed
    /\ CsvFile(sCsvRoot) \in existing
    /\ File(sCsvRoot, <<0, 1>>, "csv") \in existing
    /\ sCsvFile.suffix = <<0, 2>>
    /\ sCsvFile \in written

\* the positions of the console's lines of a kind
LinesOf(kind) == {i \in DOMAIN console : console[i].kind = kind}

(***************************************************************************)
(* C15.  A run in Crawl Mode prints the "Crawling" line exactly once: when *)
(* the crawl has closed, the console holds one such line.                  *)
(***************************************************************************)
C15_AnnouncedExactlyOnce ==
    (bClosed /\ ~bUrlListMode) => Cardinality(LinesOf("Crawling")) = 1

(***************************************************************************)
(* What holds of the announcement of C15.  In List Mode no "Crawling" line *)
(* is printed.  In Crawl Mode none                                         *)
(* is printed while no page has been processed (so none at all when the    *)
(* fetch of the start URL fails); from the first processed page on there   *)
(* is exactly one, it is the first line of the console, before every title *)
(* line, and it names the URL of the first processed page, which is the    *)
(* page of the start URL.                                                  *)
(***************************************************************************)
C15_AnnouncedOnceWithFirstPage ==
    /\ bUrlListMode => LinesOf("Crawling") = {}
    /\ (~bUrlListMode /\ lItems = <<>>) => LinesOf("Crawling") = {}
    /\ (~bUrlListMode /\ lItems # <<>>) =>
          /\ LinesOf("Crawling") = {1}
          /\ console[1].text = lItems[1].url
          /\ lItems[1].url = sStartUrl
          /\ Cardinality(LinesOf("title")) = Len(lItems)

\* Crawl Mode, three pages processed
C15_Witness ==
    /\ ~bUrlListMode
    /\ Len(lItems) = 3
    /\ Cardinality(LinesOf("title")) = 3
    /\ LinesOf("Crawling") = {1}

NumTok ==
    "2025" :> [n |-> 2025, w |-> 4] @@ "3" :> [n |-> 3, w |-> 1] @@
    "03" :> [n |-> 3, w |-> 2] @@ "04" :> [n |-> 4, w |-> 2] @@
    "02" :> [n |-> 2, w |-> 2] @@ "17" :> [n |-> 17, w |-> 2] @@
    "18" :> [n |-> 18, w |-> 2] @@ "30" :> [n |-> 30, w |-> 2] @@
    "00" :> [n |-> 0, w |-> 2] @@ "12" :> [n |-> 12, w |-> 2] @@
    "34" :> [n |-> 34, w |-> 2] @@ "56" :> [n |-> 56, w |-> 2]

IsNum(t) == t \in DOMAIN NumTok

\* whether the token is a number of at most w digits within lo..hi
NumIn(t, w, lo, hi) == IsNum(t) /\ NumTok[t].w <= w /\ NumTok[t].n \in lo..hi

\* the digit run that prints n with width w
Str(n, w) == CHOOSE t \in DOMAIN NumTok : NumTok[t].n = n /\ NumTok[t].w = w

\* the month and day names of the C locale
lFullMonths == <<"January", "February", "March", "April", "May", "June", "July",
                 "August", "September", "October", "November", "December">>

lAbbrMonths == <<"Jan", "Feb", "Mar", "Apr", "May", "Jun", "Jul", "Aug", "Sep",
                 "Oct", "Nov", "Dec">>

lAbbrDays == <<"Mon", "Tue", "Wed", "Thu", "Fri", "Sat", "Sun">>

Range(f) == {f[i] : i \in DOMAIN f}

IndexOf(f, x) == CHOOSE i \in DOMAIN f : f[i] = x

\* the zone names %Z takes and the offsets %z takes
cZoneNames == {"UTC", "GMT"}

cOffsets == {"+0000", "Z"}

\* whether token t is matched by directive or literal d of a format
MatchTok(d, t) ==
    CASE d = "%m" -> NumIn(t, 2, 1, 12)
      [] d = "%d" -> NumIn(t, 2, 1, 31)
      [] d = "%Y" -> IsNum(t) /\ NumTok[t].w = 4
      [] d = "%H" -> NumIn(t, 2, 0, 23)
      [] d = "%M" -> NumIn(t, 2, 0, 59)
      [] d = "%S" -> NumIn(t, 2, 0, 61)
      [] d = "%B" -> t \in Range(lFullMonths)
      [] d = "%b" -> t \in Range(lAbbrMonths)
      [] d = "%a" -> t \in Range(lAbbrDays)
      [] d = "%Z" -> t \in cZoneNames
      [] d = "%z" -> t \in cOffsets
      [] OTHER    -> t = d

\* whether the whole string is matched by the format
Matches(sFmt, s) ==
    /\ Len(s) = Len(sFmt)
    /\ \A i \in DOMAIN sFmt : MatchTok(sFmt[i], s[i])

\* the token of s at the place of directive d of the format
Field(sFmt, s, d) == s[IndexOf(sFmt, d)]

\* the month a matched string gives
MonthOf(sFmt, s) ==
    IF "%m" \in Range(sFmt) THEN NumTok[Field(sFmt, s, "%m")].n
    ELSE IF "%B" \in Range(sFmt) THEN IndexOf(lFullMonths, Field(sFmt, s, "%B"))
    ELSE IndexOf(lAbbrMonths, Field(sFmt, s, "%b"))

IsLeap(y) == (y % 4 = 0 /\ y % 100 # 0) \/ y % 400 = 0

DaysIn(m, y) ==
    IF m = 2 THEN (IF IsLeap(y) THEN 29 ELSE 28)
    ELSE IF m \in {4, 6, 9, 11} THEN 30 ELSE 31

\* the date of a matched string
DateOf(sFmt, s) ==
    [year  |-> NumTok[Field(sFmt, s, "%Y")].n,
     month |-> MonthOf(sFmt, s),
     day   |-> NumTok[Field(sFmt, s, "%d")].n]

\* the exception strptime raises
ValueError == [year |-> 0, month |-> 0, day |-> 0]

\* datetime.strptime, reduced to the date
strptime(s, sFmt) ==
    IF Matches(sFmt, s) /\ DateOf(sFmt, s).day <= DaysIn(DateOf(sFmt, s).month, DateOf(sFmt, s).year)
    THEN DateOf(sFmt, s)
    ELSE ValueError

\* strftime("%Y-%m-%d")
strftime(dt) == <<Str(dt.year, 4), "-", Str(dt.month, 2), "-", Str(dt.day, 2)>>

\* lines 31-43
lDateFormats ==
    << <<"%m", "/", "%d", "/", "%Y">>,
       <<"%m", "-", "%d", "-", "%Y">>,
       <<"%Y", "-", "%m", "-", "%d">>,
       <<"%d", "/", "%m", "/", "%Y">>,
       <<"%d", "-", "%m", "-", "%Y">>,
       <<"%B", " ", "%d", ",", " ", "%Y">>,
       <<"%b", " ", "%d", ",", " ", "%Y">>,
       <<"%a", ",", " ", "%d", " ", "%b", " ", "%Y", " ", "%H", ":", "%M", ":", "%S", " ", "%Z">>,
       <<"%a", ",", " ", "%d", " ", "%b", " ", "%Y", " ", "%H", ":", "%M", ":", "%S", " ", "%z">>,
       <<"%Y", "-", "%m", "-", "%d", "T", "%H", ":", "%M", ":", "%S", "%z">>,
       <<"%Y", "-", "%m", "-", "%d", "T", "%H", ":", "%M", ":", "%S", "Z">> >>

\* lines 44-50: the loop over the formats, from format i on; sDate is the
\* stripped string of line 28, which line 50 returns when no format matches
RECURSIVE TryFormats(_, _)
TryFormats(sDate, i) ==
    IF i > Len(lDateFormats) THEN sDate
    ELSE IF strptime(sDate, lDateFormats[i]) # ValueError
         THEN strftime(strptime(sDate, lDateFormats[i]))
         ELSE TryFormats(sDate, i + 1)

\* lines 23-50
parseAndFormatDate(sDate) ==
    IF StrStrip(sDate) = <<>> THEN <<>> ELSE TryFormats(StrStrip(sDate), 1)

\* email.utils.parsedate_to_datetime, reduced to the date: an RFC 2822 date,
\* with or without the day of the week
lRfc2822 == <<"%d", " ", "%b", " ", "%Y", " ", "%H", ":", "%M", ":", "%S", " ">>

lRfc2822Formats ==
    {<<"%a", ",", " ">> \o lRfc2822 \o <<z>> : z \in {"%Z", "%z"}}
        \cup {lRfc2822 \o <<z>> : z \in {"%Z", "%z"}}

parsedate_to_datetime(s) ==
    IF \E sFmt \in lRfc2822Formats : strptime(s, sFmt) # ValueError
    THEN strptime(s, CHOOSE sFmt \in lRfc2822Formats : strptime(s, sFmt) # ValueError)
    ELSE ValueError

\* the texts a meta element or a header may hold
sNotADate == <<"not", " ", "a", " ", "date">>

DateBodies ==
    { <<"3", "/", "18", "/", "2025">>,
      <<"03", "-", "18", "-", "2025">>,
      <<"2025", "-", "03", "-", "18">>,
      <<"18", "/", "03", "/", "2025">>,
      <<"18", "-", "03", "-", "2025">>,
      <<"March", " ", "18", ",", " ", "2025">>,
      <<"Mar", " ", "18", ",", " ", "2025">>,
      <<"Tue", ",", " ", "18", " ", "Mar", " ", "2025", " ", "00", ":", "00", ":", "00", " ", "GMT">>,
      <<"Tue", ",", " ", "18", " ", "Mar", " ", "2025", " ", "00", ":", "00", ":", "00", " ", "+0000">>,
      <<"2025", "-", "03", "-", "18", "T", "12", ":", "34", ":", "56", "+0000">>,
      <<"2025", "-", "03", "-", "18", "T", "12", ":", "34", ":", "56", "Z">>,
      <<"03", "/", "04", "/", "2025">>,
      <<"02", "/", "30", "/", "2025">>,
      <<"2025", "-", "03">>,
      sNotADate }

Pad(n) == [i \in 1..n |-> " "]

\* a text with blanks around it; the empty text gives the blank and empty strings
Padded(bodies) ==
    {Pad(l) \o b \o Pad(r) : b \in bodies \cup {<<>>}, l \in 0..MaxPad, r \in 0..MaxPad}

\* the contents of the four meta elements, in the order parse queries them
\* (<<>>: no such element, or an empty content)
MetaContents ==
    << Padded(DateBodies),
       {<<>>, <<" ">>, <<"2025", "-", "03", "-", "30">>, <<" ">> \o sNotADate},
       {<<>>, <<"2025", "-", "03", "-", "12">>, sNotADate},
       {<<>>, <<"2025", "-", "03", "-", "02">>} >>

\* the Last-Modified headers: none, an RFC 2822 date, texts that are none
Headers ==
    {[hasLastModified |-> FALSE, lastModified |-> <<>>]}
        \cup {[hasLastModified |-> TRUE, lastModified |-> s] :
                s \in { <<"Mon", ",", " ", "17", " ", "Mar", " ", "2025", " ",
                          "12", ":", "34", ":", "56", " ", "GMT">>,
                        <<"2025", "-", "03", "-", "18">>,
                        <<>> }}

Responses ==
    {[hasLastModified |-> h.hasLastModified, lastModified |-> h.lastModified, meta |-> m] :
        h \in Headers,
        m \in {<<m1, m2, m3, m4>> : m1 \in MetaContents[1], m2 \in MetaContents[2],
                                    m3 \in MetaContents[3], m4 \in MetaContents[4]}}

\* the positions of parse in lines 181-196, one for each meta element
lMetaPc == <<"meta1", "meta2", "meta3", "meta4">>

\* the configuration the resolution of dates runs under (it reads none of it)
cDateConfig ==
    [startUrl |-> uHome, urlList |-> <<>>, maxUrls |-> 1, crawlDepth |-> 1,
     parentDir |-> <<>>, robotFilter |-> FALSE, log |-> FALSE]

\* parse has a response in hand, at line 174
InitDate ==
    /\ InitSpider
    /\ dConfigData = cDateConfig
    /\ response \in Responses
    /\ datePc = "header"
    /\ sUpdatedDate = <<>>
    /\ lConsulted = <<>>
    /\ updated = <<>>

\* the variables of the crawl
spiderVars == <<dConfigData, lUrlSet, lItems, startLeft, scheduled, gens,
                nYielded, issued, pageLinks, fetched, failed, bClosed,
                outVars, closeVars>>

\* lines 174-180
ResolveHeader ==
    /\ datePc = "header"
    /\ sUpdatedDate' =
          IF response.hasLastModified
                /\ parsedate_to_datetime(response.lastModified) # ValueError
          THEN strftime(parsedate_to_datetime(response.lastModified))
          ELSE <<>>
    /\ datePc' = lMetaPc[1]
    /\ UNCHANGED <<response, lConsulted, updated, spiderVars>>

\* a variant of StillUnresolved that lets every meta element be read
AlwaysUnresolved == TRUE

\* lines 181, 185, 189, 193: the test `if not sUpdatedDate`
StillUnresolved == sUpdatedDate = <<>>

\* lines 181-184, 185-188, 189-192, 193-196: the block of meta element i
ResolveMeta(i) ==
    /\ datePc = lMetaPc[i]
    /\ IF StillUnresolved
       THEN /\ lConsulted' = Append(lConsulted, i)
            /\ sUpdatedDate' = IF response.meta[i] # <<>>
                               THEN parseAndFormatDate(response.meta[i])
                               ELSE sUpdatedDate
       ELSE UNCHANGED <<lConsulted, sUpdatedDate>>
    /\ datePc' = IF i < Len(lMetaPc) THEN lMetaPc[i + 1] ELSE "item"
    /\ UNCHANGED <<response, updated, spiderVars>>

\* lines 197-204: the record takes the resolved value
BuildItem ==
    /\ datePc = "item"
    /\ updated' = sUpdatedDate
    /\ datePc' = "done"
    /\ UNCHANGED <<response, sUpdatedDate, lConsulted, spiderVars>>

NextDate ==
    \/ ResolveHeader
    \/ \E i \in DOMAIN lMetaPc : ResolveMeta(i)
    \/ BuildItem

SpecDate == InitDate /\ [][NextDate]_vars

\* the date the Last-Modified header gives, <<>> when it is absent or no date
HeaderDate ==
    IF response.hasLastModified /\ parsedate_to_datetime(response.lastModified) # ValueError
    THEN strftime(parsedate_to_datetime(response.lastModified))
    ELSE <<>>

\* the value meta element i yields
MetaValue(i) ==
    IF response.meta[i] = <<>> THEN <<>> ELSE parseAndFormatDate(response.meta[i])

\* the meta elements that yield a value
Hits == {i \in DOMAIN lMetaPc : MetaValue(i) # <<>>}

Min(S) == CHOOSE x \in S : \A y \in S : x <= y

(***************************************************************************)
(* C17.  When the record is built: a Last-Modified header that parses      *)
(* gives the updated field and no meta element has been queried; without   *)
(* such a header the meta elements have been queried in their order up to  *)
(* the first that yields a non-empty value, which is the updated field;    *)
(* when none yields one, all four have been queried and the field is empty.*)
(***************************************************************************)
C17_OrderedFallback ==
    datePc = "done" =>
        IF HeaderDate # <<>>
        THEN updated = HeaderDate /\ lConsulted = <<>>
        ELSE IF Hits = {}
             THEN updated = <<>> /\ lConsulted = <<1, 2, 3, 4>>
             ELSE /\ updated = MetaValue(Min(Hits))
                  /\ lConsulted = [i \in 1..Min(Hits) |-> i]

\* a header that is no date, a blank first meta element, no second one, and
\* the third meta element deciding with a text that is no date
C17_Witness ==
    /\ datePc = "done"
    /\ response.hasLastModified
    /\ response.meta[1] = <<" ">>
    /\ response.meta[2] = <<>>
    /\ response.meta[3] = sNotADate
    /\ response.meta[4] # <<>>
    /\ updated = sNotADate
    /\ lConsulted = <<1, 2, 3>>

\* whether no format of the list parses the text of the string
Unmatched(s) ==
    /\ StrStrip(s) # <<>>
    /\ \A k \in DOMAIN lDateFormats : strptime(StrStrip(s), lDateFormats[k]) = ValueError

(***************************************************************************)
(* C18.  Once parse has queried a meta element whose content matches no    *)
(* format of the list, sUpdatedDate is that content as the page gave it,   *)
(* and so is the updated field of the record; the empty string gives the   *)
(* empty string.                                                           *)
(***************************************************************************)
C18_UnmatchedMetaVerbatim ==
    /\ parseAndFormatDate(<<>>) = <<>>
    /\ \A i \in DOMAIN lMetaPc :
          (i \in Range(lConsulted) /\ Unmatched(response.meta[i])) =>
              /\ sUpdatedDate = response.meta[i]
              /\ datePc = "done" => updated = response.meta[i]

(***************************************************************************)
(* C19.  When everything pending is eventually run, in either mode the     *)
(* crawl comes to the point where nothing is pending and closed runs;      *)
(* closed runs once, with no request or generator left, and after it no    *)
(* record is appended and nothing else changes.                            *)
(***************************************************************************)
C19_EventuallyFlushedOnce ==
    /\ <>bClosed
    /\ [](bClosed => (startLeft = {} /\ scheduled = {} /\ gens = {}))
    /\ [][bClosed' /\ ~bClosed => lItems' = lItems]_vars
    /\ [][~bClosed]_vars

\* closed List Mode and Crawl Mode runs with two records and the report written
C19_Witness ==
    /\ bClosed
    /\ Len(lItems) = 2
    /\ sCsvFile \in written
    /\ Printed("Saved")

\* the largest number of links a page of the site may carry
LargestPage ==
    CHOOSE n \in 0..Cardinality(Urls) :
        /\ \E u \in Urls : \E S \in LinkSets(u) : Cardinality(S) = n
        /\ \A u \in Urls : \A S \in LinkSets(u) : Cardinality(S) <= n

(***************************************************************************)
(* C20.  In Crawl Mode visited never holds more than maxUrls - 1 URLs plus *)
(* the largest number of links of a single page.                           *)
(***************************************************************************)
C20_OvershootWithinOnePage ==
    ~bUrlListMode => Cardinality(lUrlSet) <= (iMaxUrls - 1) + LargestPage

====
